---- MODULE Spec2Model ----
(***************************************************************************)
(* Model of examples/shmem_ring/server.rs: a service that sums the f64     *)
(* values arriving through per-client shared-memory rings and broadcasts   *)
(* the sum on D-Bus.                                                       *)
(*                                                                         *)
(* Threads: the main thread (main, lines 59-105) and one consumption       *)
(* thread per ring (the closure of add_receiver, lines 38-54).  Each       *)
(* statement that takes a lock, blocks, can fail or changes shared state   *)
(* is one step.                                                            *)
(*                                                                         *)
(* Numbers: an f64 value v is represented by the integer 2*v, so 1.0 is 2, *)
(* 2.5 is 5, -0.5 is -1 and 10.0 is 20.  On such small multiples of 0.5    *)
(* f64 addition is exact, so integer addition computes what the code does. *)
(***************************************************************************)
EXTENDS Integers, Sequences, FiniteSets, TLC

\* ------------------------------------------------------------------ bounds
MaxSessions == 2
MaxWrites == 2

\* --------------------------------------------------------------- constants
CAPACITY == 500000

\* The batches a producer deposits with one write (values in halves):
\* [1.0, 2.5, -0.5], [10.0] and [-10.0].
Batches == {<<2, 5, -1>>, <<20>>, <<0 - 20>>}

\* Consumption threads and rings that Setup can create in a run.
Threads == 1..MaxSessions
Rings == 1..MaxSessions

VARIABLES
    alive,      \* the process is running
    mainpc,     \* position of the main thread
    crLock,     \* holder of the Mutex around Crossroads (acr): Free or MainThread
    sumLock,    \* holder of the Mutex of State.sum: Free, MainThread or Thread(t)
    sum,        \* State.sum, the f64 under the mutex
    sent,       \* payloads of the Sum signals handed to the connection, in order
    reply,      \* what the last Setup call returned to its caller
    spc,        \* per thread: its position ("none": not spawned)
    ring,       \* per thread: the ring (Receiver) moved into its closure, 0 if none
    view,       \* per thread: the (ptr, count) view receive_raw handed to the closure
    s,          \* per thread: the closure's local s
    r,          \* per ring: the values written and not yet released to the producer
    wlog,       \* per ring: the batches its producer wrote, in order (history)
    folded,     \* per thread: the values it added to State.sum, in order (history)
    released,   \* per thread: number of values it reported consumed (history)
    flushed     \* per thread: how many of its folded values a broadcast covered (history)

vars == <<alive, mainpc, crLock, sumLock, sum, sent, reply, spc, ring, view, s, r,
          wlog, folded, released, flushed>>

mainVars == <<mainpc, crLock, sent, reply, flushed>>
ringVars == <<spc, ring, view, s, r, wlog, folded, released>>

\* ----------------------------------------------------------------- helpers
RECURSIVE SumSeq(_)
SumSeq(q) == IF q = <<>> THEN 0 ELSE Head(q) + SumSeq(Tail(q))

RECURSIVE Flatten(_)
Flatten(qq) == IF qq = <<>> THEN <<>> ELSE Head(qq) \o Flatten(Tail(qq))

RECURSIVE Writes(_)
Writes(n) == IF n = 0 THEN 0 ELSE Len(wlog[n]) + Writes(n - 1)

\* Batches written so far, all rings together (MaxWrites bounds them).
Written == Writes(MaxSessions)

\* The threads spawned so far, and the rings they own.
Sessions == {t \in Threads : spc[t] # "none"}
Owned == {ring[t] : t \in Sessions}

\* Positions of a thread that panicked: in block_until_readable().unwrap()
\* or in receive_raw(..).unwrap().
Dead == {"dead_wait", "dead_read"}

\* Lock holders.
Free == <<>>
MainThread == <<"main">>
Thread(t) == <<"session", t>>

NoReply == [ok |-> FALSE, msg |-> "none"]

\* -------------------------------------------------------------------- Init
Init ==
    /\ alive = TRUE
    /\ mainpc = "process"
    /\ crLock = Free
    /\ sumLock = Free
    /\ sum = 0
    /\ sent = <<>>
    /\ reply = NoReply
    /\ spc = [t \in Threads |-> "none"]
    /\ ring = [t \in Threads |-> 0]
    /\ view = [t \in Threads |-> <<>>]
    /\ s = [t \in Threads |-> 0]
    /\ r = [k \in Rings |-> <<>>]
    /\ wlog = [k \in Rings |-> <<>>]
    /\ folded = [t \in Threads |-> <<>>]
    /\ released = [t \in Threads |-> 0]
    /\ flushed = [t \in Threads |-> 0]

\* ------------------------------------------------- the producer (a client)
\* The client that attached to ring k deposits a batch b and signals "full".
Write(k, b) ==
    /\ alive
    /\ k \in Owned
    /\ Written < MaxWrites
    /\ Len(r[k]) + Len(b) <= CAPACITY
    /\ r' = [r EXCEPT ![k] = @ \o b]
    /\ wlog' = [wlog EXCEPT ![k] = Append(@, b)]
    /\ UNCHANGED <<alive, mainVars, sumLock, sum, spc, ring, view, s, folded, released>>

\* ------------------------------------ the consumption thread of one ring
\* r.block_until_readable().unwrap() returns once the ring holds data;
\* let mut s = 0.0f64;
block_until_readable(t) ==
    /\ alive
    /\ spc[t] = "wait"
    /\ r[ring[t]] # <<>>
    /\ s' = [s EXCEPT ![t] = 0]
    /\ view' = [view EXCEPT ![t] = <<>>]
    /\ spc' = [spc EXCEPT ![t] = "read"]
    /\ UNCHANGED <<alive, mainVars, sumLock, sum, ring, r, wlog, folded, released>>

\* Mutant of block_until_readable_err: the panic takes the process down.
block_until_readable_err_abort(t) ==
    /\ alive
    /\ spc[t] = "wait"
    /\ spc' = [spc EXCEPT ![t] = "dead_wait"]
    /\ alive' = FALSE
    /\ UNCHANGED <<mainVars, sumLock, sum, ring, view, s, r, wlog, folded, released>>

\* r.block_until_readable() returns Err: .unwrap() panics, the thread ends.
block_until_readable_err(t) ==
    /\ alive
    /\ spc[t] = "wait"
    /\ spc' = [spc EXCEPT ![t] = "dead_wait"]
    /\ UNCHANGED <<alive, mainVars, sumLock, sum, ring, view, s, r, wlog, folded, released>>

\* Thread t is inside r.receive_raw(..): the call has handed the view to the
\* closure and has not returned yet.
InsideRawRead(t) == spc[t] \in {"lock", "add", "count"}

\* The closure's loop: for i in 0..count { s += *ptr.add(i); }
BatchSum(acc, q) == acc + SumSeq(q)

\* Mutant of receive_raw: the closure is handed one value per call.
receive_raw_one(t) ==
    /\ alive
    /\ spc[t] = "read"
    /\ view' = [view EXCEPT ![t] = <<Head(r[ring[t]])>>]
    /\ s' = [s EXCEPT ![t] = BatchSum(@, <<Head(r[ring[t]])>>)]
    /\ spc' = [spc EXCEPT ![t] = "lock"]
    /\ UNCHANGED <<alive, mainVars, sumLock, sum, ring, r, wlog, folded, released>>

\* r.receive_raw(|ptr, count| ...): the ring hands the closure the values
\* available now, and the closure sums them into s, the lock not held.  Fewer
\* than CAPACITY values are ever written to a ring here, so the available
\* values are contiguous and form one view.
receive_raw(t) ==
    /\ alive
    /\ spc[t] = "read"
    /\ view' = [view EXCEPT ![t] = r[ring[t]]]
    /\ s' = [s EXCEPT ![t] = BatchSum(@, r[ring[t]])]
    /\ spc' = [spc EXCEPT ![t] = "lock"]
    /\ UNCHANGED <<alive, mainVars, sumLock, sum, ring, r, wlog, folded, released>>

\* r.receive_raw returns Err without having called the closure: .unwrap()
\* panics, the thread ends.
receive_raw_err_before(t) ==
    /\ alive
    /\ spc[t] = "read"
    /\ spc' = [spc EXCEPT ![t] = "dead_read"]
    /\ UNCHANGED <<alive, mainVars, sumLock, sum, ring, view, s, r, wlog, folded, released>>

\* sum.lock().unwrap()
session_lock(t) ==
    /\ alive
    /\ spc[t] = "lock"
    /\ sumLock = Free
    /\ sumLock' = Thread(t)
    /\ spc' = [spc EXCEPT ![t] = "add"]
    /\ UNCHANGED <<alive, mainVars, sum, ring, view, s, r, wlog, folded, released>>

\* Mutant of session_add: the add is made inside the closure's loop, value by
\* value, and the first value is what has been added when the guard drops.
session_add_partial(t) ==
    /\ alive
    /\ spc[t] = "add"
    /\ sum' = sum + Head(view[t])
    /\ sumLock' = Free
    /\ folded' = [folded EXCEPT ![t] = Append(@, Head(view[t]))]
    /\ spc' = [spc EXCEPT ![t] = "count"]
    /\ UNCHANGED <<alive, mainVars, ring, view, s, r, wlog, released>>

\* Mutant of session_add: the batch sum is stored, not added (= for +=).
session_add_store(t) ==
    /\ alive
    /\ spc[t] = "add"
    /\ sum' = s[t]
    /\ sumLock' = Free
    /\ folded' = [folded EXCEPT ![t] = @ \o view[t]]
    /\ spc' = [spc EXCEPT ![t] = "count"]
    /\ UNCHANGED <<alive, mainVars, ring, view, s, r, wlog, released>>

\* *guard += s; the temporary guard is dropped at the end of the statement.
\* Mutant of session_add: the guard on State.sum outlives the statement.
session_add_keeps_lock(t) ==
    /\ alive
    /\ spc[t] = "add"
    /\ sum' = sum + s[t]
    /\ sumLock' = sumLock
    /\ folded' = [folded EXCEPT ![t] = @ \o view[t]]
    /\ spc' = [spc EXCEPT ![t] = "count"]
    /\ UNCHANGED <<alive, mainVars, ring, view, s, r, wlog, released>>

session_add(t) ==
    /\ alive
    /\ spc[t] = "add"
    /\ sum' = sum + s[t]
    /\ sumLock' = Free
    /\ folded' = [folded EXCEPT ![t] = @ \o view[t]]
    /\ spc' = [spc EXCEPT ![t] = "count"]
    /\ UNCHANGED <<alive, mainVars, ring, view, s, r, wlog, released>>

\* What the ring holds once n values are released to the producer.
\* Mutant of Release: the closure returns 0, nothing is given back to the ring.
Release_none(q, n) == q

Release(q, n) == SubSeq(q, n + 1, Len(q))

\* The closure returns count, the ring releases that many values, and
\* receive_raw returns Ok: .unwrap() passes and the loop starts over.
receive_raw_ok(t) ==
    /\ alive
    /\ spc[t] = "count"
    /\ r' = [r EXCEPT ![ring[t]] = Release(@, Len(view[t]))]
    /\ released' = [released EXCEPT ![t] = @ + Len(view[t])]
    /\ spc' = [spc EXCEPT ![t] = "wait"]
    /\ UNCHANGED <<alive, mainVars, sumLock, sum, ring, view, s, wlog, folded>>

\* The closure returns count, the ring releases that many values, and
\* receive_raw returns Err (signalling the producer failed): .unwrap() panics,
\* the thread ends.
receive_raw_err_after(t) ==
    /\ alive
    /\ spc[t] = "count"
    /\ r' = [r EXCEPT ![ring[t]] = Release(@, Len(view[t]))]
    /\ released' = [released EXCEPT ![t] = @ + Len(view[t])]
    /\ spc' = [spc EXCEPT ![t] = "dead_read"]
    /\ UNCHANGED <<alive, mainVars, sumLock, sum, ring, view, s, wlog, folded>>

\* ------------------------------------------------------- the main thread
\* State::add_receiver, called by the Setup method handler.  Receiver::new
\* and the three try_clone calls can each fail; `?` then returns the error
\* before thread::spawn is reached.
FailSteps == {"new", "memfd", "empty_signal", "full_signal"}

SetupError == [ok |-> FALSE, msg |-> "failed to setup shared memory"]

\* Mutant of SetupReply: the capacity is given in bytes, not in values.
SetupReply_bytes(k) ==
    [ok |-> TRUE, capacity |-> CAPACITY * 8, memfd |-> k, empty_signal |-> k, full_signal |-> k]

SetupReply(k) ==
    [ok |-> TRUE, capacity |-> CAPACITY, memfd |-> k, empty_signal |-> k, full_signal |-> k]

\* Mutant of FreshRing: every Setup hands out the same ring.
FreshRing_shared == CHOOSE k \in Rings : \A j \in Rings : k <= j

\* Receiver::new(CAPACITY) creates a ring of its own: a new memfd and two new
\* eventfds, shared with no Receiver alive.
FreshRing == CHOOSE k \in Rings : k \notin Owned /\ \A j \in Rings : j < k => j \in Owned

\* thread::spawn starts a new thread.
NewThread == CHOOSE t \in Threads : spc[t] = "none" /\ \A u \in Threads : u < t => spc[u] # "none"

\* c.process(1000 ms) returns without a message: timeout.
process_timeout ==
    /\ alive
    /\ mainpc = "process"
    /\ mainpc' = "lock_cr"
    /\ UNCHANGED <<alive, crLock, sumLock, sum, sent, reply, flushed, ringVars>>

\* c.process(..) fails: `?` returns from main, the process exits.
process_err ==
    /\ alive
    /\ mainpc = "process"
    /\ alive' = FALSE
    /\ mainpc' = "exited"
    /\ UNCHANGED <<crLock, sumLock, sum, sent, reply, flushed, ringVars>>

\* c.process(..) pops a method call: the start_receive callback locks acr and
\* calls handle_message.
\* Mutant of process_message: the callback runs the dispatch without taking
\* the dispatcher's lock.
process_message_unlocked ==
    /\ alive
    /\ mainpc = "process"
    /\ crLock = Free
    /\ crLock' = crLock
    /\ mainpc' = "dispatch"
    /\ UNCHANGED <<alive, sumLock, sum, sent, reply, flushed, ringVars>>

process_message ==
    /\ alive
    /\ mainpc = "process"
    /\ crLock = Free
    /\ crLock' = MainThread
    /\ mainpc' = "dispatch"
    /\ UNCHANGED <<alive, sumLock, sum, sent, reply, flushed, ringVars>>

\* handle_message(..) returns Err: .unwrap() panics on the main thread.
handle_message_err ==
    /\ alive
    /\ mainpc = "dispatch"
    /\ alive' = FALSE
    /\ mainpc' = "panicked"
    /\ UNCHANGED <<crLock, sumLock, sum, sent, reply, flushed, ringVars>>

\* Setup: add_receiver returns Ok; one thread is spawned on the new ring, the
\* callback's guard on acr is dropped and c.process returns.
add_receiver_ok ==
    /\ alive
    /\ mainpc = "dispatch"
    /\ \E t \in Threads : spc[t] = "none"
    /\ spc' = [spc EXCEPT ![NewThread] = "wait"]
    /\ ring' = [ring EXCEPT ![NewThread] = FreshRing]
    /\ reply' = SetupReply(FreshRing)
    /\ crLock' = Free
    /\ mainpc' = "lock_cr"
    /\ UNCHANGED <<alive, sumLock, sum, sent, flushed, view, s, r, wlog, folded, released>>

\* Setup: the four `?` pass and thread::spawn cannot create the thread: it
\* panics, on the main thread.
spawn_panics ==
    /\ alive
    /\ mainpc = "dispatch"
    /\ alive' = FALSE
    /\ mainpc' = "panicked"
    /\ UNCHANGED <<crLock, sumLock, sum, sent, reply, flushed, ringVars>>

\* Mutant of add_receiver_err: the thread is spawned right after Receiver::new,
\* before the three try_clone calls, so a failing clone leaves it running.
add_receiver_err_spawned(step) ==
    /\ alive
    /\ mainpc = "dispatch"
    /\ step \in FailSteps
    /\ IF step # "new" /\ \E t \in Threads : spc[t] = "none"
         THEN /\ spc' = [spc EXCEPT ![NewThread] = "wait"]
              /\ ring' = [ring EXCEPT ![NewThread] = FreshRing]
         ELSE UNCHANGED <<spc, ring>>
    /\ reply' = SetupError
    /\ crLock' = Free
    /\ mainpc' = "lock_cr"
    /\ UNCHANGED <<alive, sumLock, sum, sent, flushed, view, s, r, wlog, folded, released>>

\* Mutant of add_receiver_err: the error path replaces State by its default,
\* which zeroes State.sum.
add_receiver_err_resets(step) ==
    /\ alive
    /\ mainpc = "dispatch"
    /\ step \in FailSteps
    /\ sum' = 0
    /\ reply' = SetupError
    /\ crLock' = Free
    /\ mainpc' = "lock_cr"
    /\ UNCHANGED <<alive, sumLock, sent, flushed, ringVars>>

\* Setup: add_receiver returns Err at one of its four `?`; map_err logs it and
\* answers MethodErr::failed(..).
add_receiver_err(step) ==
    /\ alive
    /\ mainpc = "dispatch"
    /\ step \in FailSteps
    /\ reply' = SetupError
    /\ crLock' = Free
    /\ mainpc' = "lock_cr"
    /\ UNCHANGED <<alive, sumLock, sum, sent, flushed, ringVars>>

\* let mut cr = acr.lock().unwrap(); cr.data_mut(..).unwrap()
lock_cr ==
    /\ alive
    /\ mainpc = "lock_cr"
    /\ crLock = Free
    /\ crLock' = MainThread
    /\ mainpc' = "lock_sum"
    /\ UNCHANGED <<alive, sumLock, sum, sent, reply, flushed, ringVars>>

\* Mutant of lock_sum: the flush reads State.sum without taking its mutex.
lock_sum_unlocked ==
    /\ alive
    /\ mainpc = "lock_sum"
    /\ mainpc' = "check"
    /\ UNCHANGED <<alive, crLock, sumLock, sum, sent, reply, flushed, ringVars>>

\* let mut sum = state.sum.lock().unwrap();
lock_sum ==
    /\ alive
    /\ mainpc = "lock_sum"
    /\ sumLock = Free
    /\ sumLock' = MainThread
    /\ mainpc' = "check"
    /\ UNCHANGED <<alive, crLock, sum, sent, reply, flushed, ringVars>>

\* Mutant of check_sum: the test `*sum != 0.0` is dropped.
check_sum_always ==
    /\ alive
    /\ mainpc = "check"
    /\ mainpc' = "send"
    /\ UNCHANGED <<alive, crLock, sumLock, sum, sent, reply, flushed, ringVars>>

\* if *sum != 0.0
check_sum ==
    /\ alive
    /\ mainpc = "check"
    /\ mainpc' = IF sum # 0 THEN "send" ELSE "unlock"
    /\ UNCHANGED <<alive, crLock, sumLock, sum, sent, reply, flushed, ringVars>>

\* c.send(Message::new_signal(..).append1(*sum)).unwrap() with send Ok.
send_ok ==
    /\ alive
    /\ mainpc = "send"
    /\ sent' = Append(sent, sum)
    /\ mainpc' = "reset"
    /\ UNCHANGED <<alive, crLock, sumLock, sum, reply, flushed, ringVars>>

\* Mutant of send_err: State.sum is reset before the result of c.send is
\* unwrapped.
send_err_after_reset ==
    /\ alive
    /\ mainpc = "send"
    /\ sum' = 0
    /\ alive' = FALSE
    /\ mainpc' = "panicked"
    /\ UNCHANGED <<crLock, sumLock, sent, reply, flushed, ringVars>>

\* Mutant of send_err: the Err of c.send is dropped and the loop goes on.
send_err_ignored ==
    /\ alive
    /\ mainpc = "send"
    /\ mainpc' = "reset"
    /\ UNCHANGED <<alive, crLock, sumLock, sum, sent, reply, flushed, ringVars>>

\* c.send(..) returns Err: .unwrap() panics on the main thread.
send_err ==
    /\ alive
    /\ mainpc = "send"
    /\ alive' = FALSE
    /\ mainpc' = "panicked"
    /\ UNCHANGED <<crLock, sumLock, sum, sent, reply, flushed, ringVars>>

\* Mutant of reset_sum: the statement `*sum = 0.0` is missing.
reset_sum_missing ==
    /\ alive
    /\ mainpc = "reset"
    /\ flushed' = [t \in Threads |-> Len(folded[t])]
    /\ mainpc' = "unlock"
    /\ UNCHANGED <<alive, crLock, sumLock, sum, sent, reply, ringVars>>

\* *sum = 0.0;
reset_sum ==
    /\ alive
    /\ mainpc = "reset"
    /\ sum' = 0
    /\ flushed' = [t \in Threads |-> Len(folded[t])]
    /\ mainpc' = "unlock"
    /\ UNCHANGED <<alive, crLock, sumLock, sent, reply, ringVars>>

\* End of the loop body: the guards `sum` and `cr` are dropped.
\* Mutant of unlock: the guard on the dispatcher is kept over the iteration.
unlock_keeps_cr ==
    /\ alive
    /\ mainpc = "unlock"
    /\ sumLock' = Free
    /\ crLock' = crLock
    /\ mainpc' = "process"
    /\ UNCHANGED <<alive, sum, sent, reply, flushed, ringVars>>

\* Mutant of unlock: the guard on State.sum is kept over the loop iteration.
unlock_keeps_sum ==
    /\ alive
    /\ mainpc = "unlock"
    /\ sumLock' = sumLock
    /\ crLock' = Free
    /\ mainpc' = "process"
    /\ UNCHANGED <<alive, sum, sent, reply, flushed, ringVars>>

unlock ==
    /\ alive
    /\ mainpc = "unlock"
    /\ sumLock' = Free
    /\ crLock' = Free
    /\ mainpc' = "process"
    /\ UNCHANGED <<alive, sum, sent, reply, flushed, ringVars>>

\* ---------------------------------------------------------- specification
Next ==
    \/ \E k \in Rings, b \in Batches : Write(k, b)
    \/ \E t \in Threads : block_until_readable(t)
    \/ \E t \in Threads : block_until_readable_err(t)
    \/ \E t \in Threads : receive_raw(t)
    \/ \E t \in Threads : receive_raw_err_before(t)
    \/ \E t \in Threads : session_lock(t)
    \/ \E t \in Threads : session_add(t)
    \/ \E t \in Threads : receive_raw_ok(t)
    \/ \E t \in Threads : receive_raw_err_after(t)
    \/ process_timeout
    \/ process_err
    \/ process_message
    \/ handle_message_err
    \/ add_receiver_ok
    \/ spawn_panics
    \/ \E step \in FailSteps : add_receiver_err(step)
    \/ lock_cr
    \/ lock_sum
    \/ check_sum
    \/ send_ok
    \/ send_err
    \/ reset_sum
    \/ unlock

Spec == Init /\ [][Next]_vars

\* The steps of the main thread that are not failures.
MainProgress ==
    \/ process_timeout
    \/ process_message
    \/ add_receiver_ok
    \/ \E step \in FailSteps : add_receiver_err(step)
    \/ lock_cr
    \/ lock_sum
    \/ check_sum
    \/ send_ok
    \/ reset_sum
    \/ unlock

\* Scheduling: a thread that can take its next step takes it (the OS runs
\* every runnable thread), and a thread waiting in Mutex::lock gets the mutex
\* if it is released again and again.  Failures and the producers' writes
\* are not forced.
Fairness ==
    /\ WF_vars(MainProgress /\ ~lock_sum)
    /\ SF_vars(lock_sum)
    /\ \A t \in Threads :
          /\ WF_vars(block_until_readable(t))
          /\ WF_vars(receive_raw(t))
          /\ SF_vars(session_lock(t))
          /\ WF_vars(session_add(t))
          /\ WF_vars(receive_raw_ok(t))

LiveSpec == Init /\ [][Next]_vars /\ Fairness

\* ======================================================== the properties
RECURSIVE FoldedUpTo(_)
FoldedUpTo(n) == IF n = 0 THEN 0 ELSE SumSeq(folded[n]) + FoldedUpTo(n - 1)

\* Sum of all values any thread has added to State.sum.
FoldedTotal == FoldedUpTo(MaxSessions)

\* The values thread t folded that no broadcast has covered yet.
Unflushed(t) == SubSeq(folded[t], flushed[t] + 1, Len(folded[t]))

RECURSIVE UnflushedUpTo(_)
UnflushedUpTo(n) == IF n = 0 THEN 0 ELSE SumSeq(Unflushed(n)) + UnflushedUpTo(n - 1)

\* Sum of the values folded since the last flush that broadcast.
Pending == UnflushedUpTo(MaxSessions)

Last(q) == q[Len(q)]

\* The flush has handed its payload to the connection and not yet executed
\* `*sum = 0.0` (it holds the mutex of State.sum).
MidFlush == mainpc = "reset"

\* C1. Conservation: the payloads broadcast so far plus the value in State.sum
\* equal the sum of all values folded so far, every folded value counted once,
\* in every state between the steps of folds and flushes; inside a flush,
\* between the emission and `*sum = 0.0`, the payloads alone equal that sum
\* and State.sum still holds the payload just emitted.
C1_Conservation ==
    /\ ~MidFlush => SumSeq(sent) + sum = FoldedTotal
    /\ MidFlush => SumSeq(sent) = FoldedTotal /\ sent # <<>> /\ sum = Last(sent)

\* Two threads have folded, a broadcast was made, and more has been folded since.
C1_Witness ==
    /\ \A t \in Threads : folded[t] # <<>>
    /\ sent # <<>>
    /\ sum # 0
    /\ ~MidFlush

\* C2. The flush's read-and-reset is atomic with respect to the threads' adds:
\* from the read (`*sum != 0.0`) to the reset the main thread holds the mutex
\* and no thread is at its add, and the value reset away is the value broadcast.
C2_FlushAtomic ==
    /\ mainpc \in {"check", "send", "reset", "unlock"} =>
          sumLock = MainThread /\ \A t \in Threads : spc[t] # "add"
    /\ mainpc = "reset" => sent # <<>> /\ sum = Last(sent)

\* A thread has its batch sum ready and waits for the mutex while the flush is
\* between its emission and its reset.
C2_Witness == mainpc = "reset" /\ \E t \in Threads : spc[t] = "lock" /\ s[t] # 0

\* C3. No value is counted in two broadcasts: a flush leaves State.sum zero when
\* it releases it, and the payload of each broadcast is the sum of exactly the
\* values folded after the previous broadcasting flush.
C3_NoDoubleCount ==
    /\ mainpc = "unlock" => sum = 0
    /\ mainpc = "reset" => sent # <<>> /\ Last(sent) = Pending

\* A second broadcast has just been emitted.
C3_Witness == mainpc = "reset" /\ Len(sent) = 2 /\ \E t \in Threads : flushed[t] > 0

\* C4. A flush emits one Sum signal when it reads a non-zero value and none when
\* it reads zero: a signal is emitted only by the send of a flush that read a
\* non-zero value, and carries that value; a flush that reads zero goes on to
\* release the locks with State.sum and the signals unchanged; after an
\* emission the loop resets, unlocks and returns to c.process before it can
\* reach the send again.
C4_OneSignalIfNonZero ==
    [][/\ sent' # sent =>
             mainpc = "send" /\ mainpc' = "reset" /\ sum # 0 /\ sent' = Append(sent, sum)
       /\ (mainpc' = "send" /\ mainpc # "send") => (mainpc = "check" /\ sum # 0)
       /\ (mainpc = "check" /\ mainpc' # "check") =>
             IF sum = 0 THEN mainpc' = "unlock" /\ sum' = sum /\ sent' = sent
                        ELSE mainpc' = "send"
       /\ (mainpc = "reset" /\ mainpc' # "reset") => mainpc' = "unlock"
       /\ (mainpc = "unlock" /\ mainpc' # "unlock") => mainpc' = "process"]_vars

\* A flush read zero although values were folded in its interval (they cancel).
C4_Witness ==
    /\ mainpc = "unlock"
    /\ sent = <<>>
    /\ sum = 0
    /\ \E t \in Threads : folded[t] # <<>>

IsPrefix(p, q) == Len(p) <= Len(q) /\ SubSeq(q, 1, Len(p)) = p

\* C5. Every successful Setup creates a ring owned by exactly one session: no
\* two threads hold the same ring, the handles of a reply are those of a ring
\* held by exactly one thread, every value written to a ring is still in it or
\* was released by its one owner, and what a thread folds is what was written
\* into its own ring.
C5_RingOwnedByOneSession ==
    /\ \A t \in Sessions : ring[t] \in Rings
    /\ \A t \in Sessions, u \in Sessions : t # u => ring[t] # ring[u]
    /\ reply.ok =>
          /\ reply.empty_signal = reply.memfd /\ reply.full_signal = reply.memfd
          /\ Cardinality({t \in Sessions : ring[t] = reply.memfd}) = 1
    /\ \A t \in Sessions :
          /\ IsPrefix(folded[t], Flatten(wlog[ring[t]]))
          /\ released[t] + Len(r[ring[t]]) = Len(Flatten(wlog[ring[t]]))

\* Two sessions exist and each has folded data of its own ring.
C5_Witness ==
    /\ Cardinality(Sessions) = 2
    /\ \A t \in Sessions : folded[t] # <<>>
    /\ \E t \in Sessions, u \in Sessions : folded[t] # folded[u]

\* A Setup call returns in this step (the handler ends and c.process returns).
SetupReturns == mainpc = "dispatch" /\ mainpc' = "lock_cr"

\* C6. Threads are spawned by successful Setup calls only, one each: a Setup
\* that returns Ok spawns exactly one thread, which starts at its wait; a Setup
\* that fails at any of its steps spawns none and leaves every thread and ring
\* as it was; no other step spawns a thread.
C6_OneThreadPerSuccessfulSetup ==
    [][/\ (SetupReturns /\ reply'.ok) =>
             /\ Cardinality(Sessions' \ Sessions) = 1
             /\ Sessions \subseteq Sessions'
             /\ \A t \in Sessions' \ Sessions : spc'[t] = "wait" /\ ring'[t] = reply'.memfd
       /\ (SetupReturns /\ ~reply'.ok) => spc' = spc /\ ring' = ring
       /\ ~SetupReturns => Sessions' = Sessions]_vars

\* A Setup has failed while one session runs and a thread could still be spawned.
C6_Witness ==
    /\ reply = SetupError
    /\ mainpc = "lock_cr"
    /\ Cardinality(Sessions) = 1

\* Thread t panics in this step.
Dies(t) == spc[t] \notin Dead /\ spc'[t] \in Dead

\* C7. A failure of the wait or of the read of one session ends that thread
\* only: the step leaves the process alive, the main thread, both locks,
\* State.sum and every other thread as they were, and the dead thread does not
\* hold the mutex of State.sum, so the others and the flush can still take it.
C7_FailureIsolated ==
    /\ [](\A t \in Threads : spc[t] \in Dead => sumLock # Thread(t))
    /\ [][\A t \in Threads : Dies(t) =>
             /\ alive' = alive
             /\ mainpc' = mainpc /\ crLock' = crLock /\ sent' = sent
             /\ sumLock' = sumLock /\ sum' = sum
             /\ \A u \in Threads \ {t} : spc'[u] = spc[u]]_vars

\* After one thread died, another holds the mutex for its add and the main
\* thread is on its way to the flush.
C7_Witness ==
    /\ alive
    /\ mainpc = "lock_sum"
    /\ \E t \in Threads, u \in Threads : spc[t] \in Dead /\ spc[u] = "add"

\* The values the closure was handed by the read in which thread t died.
AddedByFailedRead(t) == IF spc[t] = "dead_read" THEN view[t] ELSE <<>>

\* C8 as claimed: a read that returns an error has added nothing to State.sum.
C8_FailedReadAddsNothing == \A t \in Threads : AddedByFailedRead(t) = <<>>

\* C8, amended. A read that fails never leaves part of a batch in State.sum:
\* when receive_raw returns an error the thread has added either nothing or the
\* sum of the whole view, in one add, and everything it ever folded has been
\* released to the ring; a thread that died adds nothing afterwards.
C8_FailedReadNeverPartial ==
    /\ [](\A t \in Threads : spc[t] = "dead_read" =>
             /\ Len(folded[t]) = released[t]
             /\ view[t] # <<>> =>
                   /\ SubSeq(folded[t], Len(folded[t]) - Len(view[t]) + 1, Len(folded[t])) = view[t]
                   /\ s[t] = SumSeq(view[t]))
    /\ [][\A t \in Threads : spc[t] \in Dead => spc'[t] = spc[t] /\ folded'[t] = folded[t]]_vars

\* A read failed after its closure had added a three-value batch.
C8_Witness == \E t \in Threads : spc[t] = "dead_read" /\ Len(view[t]) = 3 /\ sum = 6

\* Exactly two threads have folded, one value 10.0 each.
TwoFoldedTen ==
    \E t \in Threads, u \in Threads :
        /\ t # u
        /\ folded[t] = <<20>> /\ folded[u] = <<20>>
        /\ \A v \in Threads \ {t, u} : folded[v] = <<>>

\* C9. Contributions of several sessions in one interval are reported together:
\* every broadcast carries the total folded by all threads since the previous
\* broadcast; when two threads have each folded one 10.0 and nothing has been
\* broadcast, the next broadcast is 20.0, and no second one follows it.
C9_OneBroadcastForInterval ==
    [][/\ sent' # sent => sent' = Append(sent, Pending)
       /\ (TwoFoldedTen /\ sent = <<>> /\ sent' # sent) => sent' = <<40>>
       /\ (TwoFoldedTen /\ sent = <<40>> /\ TwoFoldedTen') => sent' = sent]_vars

\* Both 10.0 were broadcast as one 20.0 and a later flush is reading zero.
C9_Witness == TwoFoldedTen /\ sent = <<40>> /\ mainpc = "check"

\* The only write so far is the batch [1.0, 2.5, -0.5], into one ring.
OneBatchWritten ==
    \E k \in Rings : wlog[k] = << <<2, 5, -1>> >> /\ \A j \in Rings \ {k} : wlog[j] = <<>>

\* C10. A batch is folded by one add and is never split across broadcasts:
\* with [1.0, 2.5, -0.5] the only batch written, the signals are none or the
\* single payload 3.0, and once it is folded a completed flush has sent 3.0 and
\* left State.sum zero; every add puts the whole view into State.sum at once.
C10_BatchInOneBroadcast ==
    /\ [](OneBatchWritten =>
             /\ sent \in {<<>>, <<6>>}
             /\ \A t \in Threads : folded[t] \in {<<>>, <<2, 5, -1>>}
             /\ (mainpc = "unlock" /\ \E t \in Threads : folded[t] # <<>>) =>
                   sent = <<6>> /\ sum = 0)
    /\ [][\A t \in Threads : folded'[t] # folded[t] =>
             /\ folded'[t] = folded[t] \o view[t]
             /\ sum' = sum + SumSeq(view[t])
             /\ sent' = sent]_vars

\* 3.0 was broadcast and the following flush is reading zero.
C10_Witness == OneBatchWritten /\ sent = <<6>> /\ mainpc = "check" /\ sum = 0

\* A Setup call returns an error in this step.
SetupFails == SetupReturns /\ ~reply'.ok

\* C11. A failed Setup is isolated to that call: the step leaves the process
\* alive, State.sum, its mutex, the signals sent, every thread and every ring
\* unchanged, drops the callback's guard on the dispatcher and returns to the
\* loop at the same place as a successful call, so that the next c.process can
\* dispatch another Setup.
C11_FailedSetupIsolated ==
    [][SetupFails =>
          /\ alive' /\ reply' = SetupError
          /\ sum' = sum /\ sumLock' = sumLock /\ sent' = sent /\ flushed' = flushed
          /\ UNCHANGED ringVars
          /\ crLock' = Free /\ mainpc' = "lock_cr"]_vars

\* After a failed Setup, with a session at its add, the next Setup is being
\* dispatched and a thread can be spawned for it.
C11_Witness ==
    /\ alive
    /\ reply = SetupError
    /\ mainpc = "dispatch"
    /\ \E t \in Threads : spc[t] = "add"
    /\ \E t \in Threads : spc[t] = "none"

\* C12. A failure of the control channel is fatal to the process, and nothing
\* else ends the loop: the process ends only by a step of the main thread in
\* c.process, in the dispatch of a message or in c.send; the send is left only
\* with the signal emitted or with the process ended; once the process has
\* ended no step is taken (no flush, no Setup, no add); and while it runs the
\* main thread is in its loop and can take a step, or waits for the mutex of
\* State.sum held by a thread that is about to release it.
C12_ChannelFailureFatal ==
    /\ [](alive <=> mainpc \notin {"exited", "panicked"})
    /\ [](alive =>
            \/ ENABLED MainProgress
            \/ mainpc = "lock_sum" /\ \E t \in Threads : sumLock = Thread(t) /\ ENABLED session_add(t))
    /\ [][/\ alive
          /\ ~alive' =>
                /\ mainpc \in {"process", "dispatch", "send"}
                /\ UNCHANGED <<crLock, sumLock, sum, sent, reply, flushed, ringVars>>
          /\ (mainpc = "send" /\ mainpc' # "send") =>
                \/ ~alive'
                \/ mainpc' = "reset" /\ sent' = Append(sent, sum)]_vars

\* The process ended in the dispatch of a message while a session was running.
C12_Witness ==
    /\ ~alive
    /\ mainpc = "panicked"
    /\ crLock = MainThread
    /\ sumLock # MainThread
    /\ \E t \in Threads : spc[t] = "lock"

\* C13 as claimed: the error message is "failed to set up shared memory".
C13_MessageAsSpecified ==
    /\ (~reply.ok /\ reply # NoReply) => reply.msg = "failed to set up shared memory"
    /\ reply.ok => reply.capacity = 500000

\* C13, amended. A failed Setup answers an application-level error whose
\* message is exactly "failed to setup shared memory"; a successful one answers
\* the capacity 500000 and the three handles of the ring of the new session.
C13_SetupReplies ==
    /\ (~reply.ok /\ reply # NoReply) => reply.msg = "failed to setup shared memory"
    /\ reply.ok =>
          /\ reply.capacity = 500000
          /\ DOMAIN reply = {"ok", "capacity", "memfd", "empty_signal", "full_signal"}
          /\ \A h \in {"memfd", "empty_signal", "full_signal"} : reply[h] \in Owned

\* A Setup failed after an earlier one had succeeded.
C13_Witness == ~reply.ok /\ reply # NoReply /\ Sessions # {} /\ mainpc = "lock_cr"

\* C14 as claimed: a session holds the mutex of State.sum neither while it
\* waits for its ring nor while it is inside the raw batched read.
C14_LockOutsideRawRead ==
    \A t \in Threads : sumLock = Thread(t) => spc[t] # "wait" /\ ~InsideRawRead(t)

\* C14, amended. A session does not hold the mutex of State.sum while it waits
\* for its ring nor while it sums the elements of a batch; it holds it only for
\* the add of the batch sum, which it makes inside the raw batched read: the
\* local sum is complete, and the count has not yet been reported to the ring.
C14_LockOnlyForAdd ==
    \A t \in Threads :
        /\ sumLock = Thread(t) <=> spc[t] = "add"
        /\ spc[t] \in {"lock", "add"} =>
              /\ s[t] = SumSeq(view[t])
              /\ view[t] # <<>>
              /\ view[t] = SubSeq(r[ring[t]], 1, Len(view[t]))
              /\ Len(folded[t]) = released[t]

\* A session holds the mutex inside the raw batched read, while another one
\* waits for its ring.
C14_Witness ==
    \E t, u \in Threads :
        /\ sumLock = Thread(t)
        /\ InsideRawRead(t)
        /\ Len(view[t]) = 3
        /\ spc[u] = "wait"

\* C15 as claimed: the holder of the mutex of State.sum performs no operation
\* of the control channel, so the main thread is not at c.send with it.
C15_NoChannelOperationUnderLock ==
    /\ sumLock = MainThread => mainpc \notin {"process", "dispatch", "send"}
    /\ \A t \in Threads : sumLock = Thread(t) => spc[t] = "add"

\* C15, amended. A critical section of a session on the mutex of State.sum is
\* a single add; one of the reporting loop is a read, the emission of the Sum
\* signal if the value is not zero, and the reset.  The holder never runs the
\* message pump or a dispatch and performs no ring operation; while the main
\* thread holds the mutex State.sum changes only by the reset, and a session
\* can wait for the mutex during the emission.
C15_CriticalSections ==
    /\ [](/\ sumLock = MainThread =>
                /\ mainpc \in {"check", "send", "reset", "unlock", "panicked"}
                /\ crLock = MainThread
          /\ \A t \in Threads : sumLock = Thread(t) => spc[t] = "add")
    /\ [][/\ (sumLock = MainThread /\ sumLock' = MainThread) =>
                /\ sum' = sum \/ (mainpc = "reset" /\ sum' = 0)
                /\ sent' = sent \/ (mainpc = "send" /\ sent' = Append(sent, sum))
                /\ mainpc' # mainpc => UNCHANGED ringVars
          /\ \A t \in Threads :
                sumLock = Thread(t) =>
                    \/ /\ sumLock' = Thread(t)
                       /\ sum' = sum
                       /\ spc'[t] = spc[t] /\ view'[t] = view[t] /\ released'[t] = released[t]
                    \/ /\ sumLock' = Free
                       /\ sum' = sum + s[t]
                       /\ r' = r /\ released' = released]_vars

\* The main thread is at c.send with the mutex held and a session waits for it.
C15_Witness ==
    /\ sumLock = MainThread
    /\ mainpc = "send"
    /\ \E t \in Threads : spc[t] = "lock"

\* The order of the steps of one iteration of a session's loop, with the
\* ends of the thread.
LoopOrder ==
    {<<"none", "wait">>, <<"wait", "read">>, <<"read", "lock">>, <<"lock", "add">>,
     <<"add", "count">>, <<"count", "wait">>,
     <<"wait", "dead_wait">>, <<"read", "dead_read">>, <<"count", "dead_read">>}

\* C16. A session's steps follow the order wait, read, add, report; the
\* count reported equals the length of the batch just read; the values a
\* session folded are, in order and once each, an initial part of the values
\* written to its ring; the values released are those folded, except for the
\* batch just added whose count is about to be reported; and the ring holds
\* exactly the values written and not released.
C16_LoopOrderAndCount ==
    /\ [](\A t \in Sessions :
            /\ IsPrefix(folded[t], Flatten(wlog[ring[t]]))
            /\ released[t] + Len(r[ring[t]]) = Len(Flatten(wlog[ring[t]]))
            /\ Len(folded[t]) = released[t] + (IF spc[t] = "count" THEN Len(view[t]) ELSE 0))
    /\ [][\A t \in Threads :
            /\ spc'[t] # spc[t] => <<spc[t], spc'[t]>> \in LoopOrder
            /\ folded'[t] # folded[t] =>
                  /\ spc[t] = "add" /\ spc'[t] = "count"
                  /\ folded'[t] = folded[t] \o view[t]
                  /\ sum' = sum + SumSeq(view[t])
            /\ (released'[t] # released[t] \/ (spc[t] = "count" /\ spc'[t] # "count")) =>
                  /\ spc[t] = "count"
                  /\ released'[t] = released[t] + Len(view[t])
                  /\ r'[ring[t]] = SubSeq(r[ring[t]], Len(view[t]) + 1, Len(r[ring[t]]))]_vars

\* A session reports the count of its second batch, [10.0], the first one,
\* [1.0, 2.5, -0.5], released before.
C16_Witness ==
    \E t \in Threads :
        /\ spc[t] = "count"
        /\ released[t] = 3
        /\ folded[t] = <<2, 5, -1, 20>>
        /\ view[t] = <<20>>

\* C17. If the control channel never fails, then under fair scheduling the
\* main thread reaches the test of a flush after every return of c.process,
\* and so infinitely often; a non-zero State.sum seen by a flush leads to the
\* signal carrying it and to the reset; and State.sum, once non-zero, becomes
\* zero again (by that reset, or before it by contributions that cancel).
C17_ReportingLive ==
    []alive =>
        /\ []<>(mainpc = "check")
        /\ (mainpc = "lock_cr") ~> (mainpc = "check")
        /\ (mainpc = "check" /\ sum # 0) ~> (mainpc = "unlock" /\ sum = 0 /\ sent # <<>>)
        /\ (sum # 0) ~> (sum = 0)

\* A flush has emitted the batch sum 3.0 of a session and reset State.sum.
C17_Witness ==
    /\ alive
    /\ mainpc = "unlock"
    /\ sum = 0
    /\ sent = <<6>>
    /\ \E t \in Threads : folded[t] = <<2, 5, -1>>

\* No thread waits for a lock held by a thread that waits or that has the
\* lock already: the main thread takes the dispatcher's lock with no lock
\* held, and the mutex of State.sum with the dispatcher's lock held and the
\* mutex not its own; a session takes the mutex with no lock held; and the
\* holder of the mutex is not itself waiting for a lock.
LockOrder ==
    /\ crLock \in {Free, MainThread}
    /\ mainpc \in {"process", "lock_cr"} => crLock = Free /\ sumLock # MainThread
    /\ mainpc \in {"dispatch", "lock_sum"} => crLock = MainThread /\ sumLock # MainThread
    /\ sumLock = MainThread =>
          crLock = MainThread /\ mainpc \in {"check", "send", "reset", "unlock", "panicked"}
    /\ \A t \in Threads :
          /\ spc[t] = "lock" => sumLock # Thread(t)
          /\ sumLock = Thread(t) => spc[t] = "add"

\* C18. The locks are taken in the order of LockOrder in every reachable
\* state, and while the process runs every acquisition succeeds under fair
\* scheduling: a session waiting for the mutex of State.sum gets it, the
\* main thread waiting for the dispatcher's lock gets it, in the loop and in
\* the handler of the pump, and then gets the mutex of State.sum.
C18_NoDeadlock ==
    /\ []LockOrder
    /\ []alive =>
          /\ \A t \in Threads : (spc[t] = "lock") ~> (spc[t] = "add")
          /\ (mainpc = "lock_cr") ~> (mainpc = "lock_sum")
          /\ (mainpc = "lock_sum") ~> (mainpc = "check")
          /\ (mainpc = "process") ~> (mainpc \in {"dispatch", "lock_cr"})

\* Two sessions wait for the mutex of State.sum while the main thread holds
\* it and the dispatcher's lock.
C18_Witness ==
    /\ alive
    /\ crLock = MainThread
    /\ sumLock = MainThread
    /\ \A t \in Threads : spc[t] = "lock"

\* The main thread ended in c.send(..).unwrap() of a flush.
EmissionFailed == ~alive /\ mainpc = "panicked" /\ sumLock = MainThread

\* C19. The main thread changes State.sum only by the reset, which follows
\* the emission of a signal whose payload is the value then in State.sum;
\* the payload of an emission is State.sum at the moment of the send, which
\* the send leaves unchanged; and after a failed emission State.sum still
\* holds the non-zero value that was not broadcast, the values folded being
\* the payloads sent before plus that value.
C19_ResetAfterSend ==
    /\ [](/\ mainpc = "reset" => sent # <<>> /\ Last(sent) = sum /\ sum # 0
          /\ EmissionFailed => sum # 0 /\ SumSeq(sent) + sum = FoldedTotal)
    /\ [][/\ (mainpc' # mainpc /\ sum' # sum) =>
                /\ mainpc = "reset" /\ mainpc' = "unlock"
                /\ sum' = 0
                /\ sent' = sent
          /\ sent' # sent =>
                /\ mainpc = "send" /\ mainpc' = "reset"
                /\ sent' = Append(sent, sum)
                /\ sum' = sum
          /\ (mainpc = "send" /\ ~alive') => sum' = sum /\ sent' = sent]_vars

\* An emission failed after an earlier one had succeeded: State.sum holds
\* the value that was not broadcast.
C19_Witness ==
    /\ EmissionFailed
    /\ sent # <<>>
    /\ sum # 0
    /\ sum # Last(sent)

\* The main thread is in its flush, from acr.lock() to the end of the body.
InFlush == mainpc \in {"lock_cr", "lock_sum", "check", "send", "reset", "unlock"}

\* C20. Setup runs only in the dispatch of the message pump, on the main
\* thread, with the dispatcher's lock held and outside a flush; a step that
\* answers a Setup or changes the set of sessions is such a dispatch, it ends
\* the call, adds exactly one session and removes none, leaves State.sum and
\* the signals alone, and is followed by the flush of the same iteration.
C20_SetupSerialized ==
    /\ [](mainpc = "dispatch" => crLock = MainThread /\ sumLock # MainThread /\ ~InFlush)
    /\ [][/\ (Sessions' # Sessions \/ reply' # reply) =>
                /\ mainpc = "dispatch" /\ mainpc' = "lock_cr"
                /\ crLock = MainThread /\ crLock' = Free
                /\ sum' = sum /\ sent' = sent /\ sumLock' = sumLock
          /\ Sessions \subseteq Sessions'
          /\ Cardinality(Sessions') <= Cardinality(Sessions) + 1
          /\ Sessions' # Sessions <=> (mainpc = "dispatch" /\ reply'.ok /\ mainpc' = "lock_cr")
          /\ \A t \in Sessions : ring'[t] = ring[t]]_vars

\* A second Setup is being dispatched while the session of the first one
\* adds its batch sum.
C20_Witness ==
    /\ alive
    /\ mainpc = "dispatch"
    /\ reply.ok
    /\ Cardinality(Sessions) = 1
    /\ \E t \in Sessions : spc[t] = "add"

====
